---- MODULE Spec2Model ----
(***************************************************************************)
(* Model of AWSRequestSignatureV4.sign (src/aws-request-sigv4/index.ts).   *)
(*                                                                         *)
(* Strings that the code parses (hostname, path) are sequences of          *)
(* one-character strings.  JavaScript objects that the code can alias or   *)
(* mutate (header and query mappings) live in `heap`, addressed by         *)
(* references; every invocation of the async function has its own frame of *)
(* locals.  The external signer (SignatureV4) and the credential providers *)
(* are modelled at the call sites, by their documented effect on the       *)
(* request they are given.                                                 *)
(***************************************************************************)
EXTENDS Integers, Sequences, FiniteSets, TLC

\* ------------------------------------------------------------------ bounds
NCalls == 2
MaxPathLen == 2

\* ------------------------------------------------------- program constants
DurationSeconds == 3600

Calls == 1..NCalls

\* ------------------------------------------------------------ JS values
Undefined == "undefined"

\* Values of `input.body` (typed any): absent, '', 0, false, and an object.
BodyValues == {Undefined, "emptyString", "zero", "false", "object"}

\* JavaScript truthiness, as used by `!input.body` and `input.roleArn ? :`.
Truthy(v) == v \notin {Undefined, "emptyString", "zero", "false", ""}

ExampleRoleArn == "arn:aws:iam::1111111111:role/example"
RoleArnValues == {Undefined, "", ExampleRoleArn}

Methods == {"GET", "POST", "PUT"}
Services == {"execute-api", ""}
Regions == {"eu-west-1", ""}
Modes == {"headers", "query", Undefined}

\* --------------------------------------------------------------- strings
PathChars == {"a", "/", "?", "#"}

StringsOver(chars, n) == UNION {[1..k -> chars] : k \in 0..n}

Hostnames == {<<>>, <<"a">>, <<"B">>}

AbsentPath == [present |-> FALSE, value |-> <<>>]
PathOf(s) == [present |-> TRUE, value |-> s]
Paths == {AbsentPath} \cup {PathOf(s) : s \in StringsOver(PathChars, MaxPathLen)}

\* `input.path || ''`
PathOrEmpty(p) == IF p.present /\ p.value # <<>> THEN p.value ELSE <<>>

\* `https://${input.hostname}${input.path || ''}` without the scheme prefix.
UrlText(hostname, path) == hostname \o PathOrEmpty(path)

\* Host names are lowercased by the URL parser.
Lower(ch) == IF ch = "B" THEN "b" ELSE ch

RECURSIVE DropSlashes(_)
DropSlashes(s) ==
  IF s # <<>> /\ Head(s) = "/" THEN DropSlashes(Tail(s)) ELSE s

RECURSIVE TakeUntil(_, _)
TakeUntil(s, stops) ==
  IF s = <<>> \/ Head(s) \in stops THEN <<>>
  ELSE <<Head(s)>> \o TakeUntil(Tail(s), stops)

Drop(s, n) == SubSeq(s, n + 1, Len(s))

\* new URL('https://' + text): the WHATWG parser of a special-scheme URL.
\* Slashes after `https://` are skipped, the host runs to the first `/`, `?`
\* or `#` and is lowercased, an empty host is a TypeError, the pathname runs
\* to the first `?` or `#` and is `/` when empty.
UrlParse(text) ==
  LET t       == DropSlashes(text)
      hostRaw == TakeUntil(t, {"/", "?", "#"})
      rest    == Drop(t, Len(hostRaw))
      pathRaw == TakeUntil(rest, {"?", "#"})
  IN  [valid    |-> hostRaw # <<>>,
       hostname |-> [i \in 1..Len(hostRaw) |-> Lower(hostRaw[i])],
       pathname |-> IF pathRaw = <<>> THEN <<"/">> ELSE pathRaw]

\* ------------------------------------------------- objects and references
\* Header and query mappings are functions from names to strings.
EmptyMap == [n \in {} |-> <<>>]

\* { ...base, [name]: value }
Spread(base, name, value) ==
  [n \in DOMAIN base \cup {name} |-> IF n = name THEN value ELSE base[n]]

\* delete m[name]
Delete(m, name) == [n \in DOMAIN m \ {name} |-> m[n]]

Tags == {"input.headers", "input.query", "request.headers", "request.query",
         "signed.headers", "signed.query"}
Refs == Calls \X Tags
Null == <<0, "null">>

InputRefs == Calls \X {"input.headers", "input.query"}

VARIABLES
  pc,                \* position of each invocation of sign
  args,              \* (input, addSignatureTo) of each invocation
  heap,              \* the mappings, by reference
  request,           \* local `request`
  credentialsToUse,  \* local `credentialsToUse`
  signerOps,         \* signer operations invoked by each invocation, in order
  resolves,          \* times the credential provider was asked to resolve
  signedRequest,     \* local `signedRequest`
  thrown             \* name of the error the invocation rejected with, or ""

vars == <<pc, args, heap, request, credentialsToUse, signerOps, resolves,
          signedRequest, thrown>>

NoRequest ==
  [built |-> FALSE, hostname |-> <<>>, path |-> <<>>, method |-> "",
   headers |-> Null, query |-> Null, body |-> Undefined]

NoCredentials == [kind |-> "none", RoleArn |-> "", Duration |-> 0]

\* The mapping `input.headers` holds (nothing is spread from undefined).
InputHeaders(c) ==
  IF args[c].headers = Null THEN EmptyMap ELSE heap[args[c].headers]

\* ----------------------------------------------------- sign: the statements
\* Locals of the synchronous part of sign, up to the await.  A statement
\* after a throw is not executed.
Locals0 ==
  [error |-> "", url |-> UrlParse(<<>>), request |-> NoRequest,
   headersObj |-> EmptyMap, credentialsToUse |-> NoCredentials, ops |-> <<>>]

\* const url = new URL(...)
StmtUrl(c, L) ==
  IF L.error # "" THEN L
  ELSE LET u == UrlParse(UrlText(args[c].hostname, args[c].path))
       IN  IF u.valid THEN [L EXCEPT !.url = u]
           ELSE [L EXCEPT !.error = "TypeError"]

\* The object literal { ...input.headers, host } is a new object.
HeadersObjectAliased(c) ==
  IF args[c].headers = Null THEN <<c, "request.headers">> ELSE args[c].headers

HeadersObject(c) == <<c, "request.headers">>

\* The header mapping of the new request: the caller's headers with `host`
\* set (key `host` exactly; other spellings are other keys).
RequestHeaders(base, hostname) == Spread(base, "host", hostname)

\* const request = new HttpRequest({...}); query defaults to a new {}.
StmtRequest(c, L) ==
  IF L.error # "" THEN L
  ELSE [L EXCEPT
          !.request = [built |-> TRUE,
                       hostname |-> L.url.hostname,
                       path |-> L.url.pathname,
                       method |-> args[c].method,
                       headers |-> HeadersObject(c),
                       query |-> <<c, "request.query">>,
                       body |-> Undefined],
          !.headersObj = RequestHeaders(InputHeaders(c), L.url.hostname)]

\* if (input.query) request.query = input.query   (the same object)
StmtQuery(c, L) ==
  IF L.error # "" \/ args[c].query = Null THEN L
  ELSE [L EXCEPT !.request.query = args[c].query]

\* !input.body
BodyMissing(body) == ~Truthy(body)

\* if (input.method !== 'GET') { if (!input.body) throw ...; request.body = ... }
StmtBody(c, L) ==
  IF L.error # "" \/ args[c].method = "GET" THEN L
  ELSE IF BodyMissing(args[c].body)
       THEN [L EXCEPT !.error = "BadRequestException"]
       ELSE [L EXCEPT !.request.body = args[c].body]

\* input.roleArn ? fromTemporaryCredentials({...}) : defaultProvider()
CredentialsToUseDefaultOnly(roleArn) ==
  [kind |-> "default", RoleArn |-> "", Duration |-> 0]

CredentialsToUse(roleArn) ==
  IF Truthy(roleArn)
  THEN [kind |-> "temporary", RoleArn |-> roleArn, Duration |-> DurationSeconds]
  ELSE [kind |-> "default", RoleArn |-> "", Duration |-> 0]

StmtCredentials(c, L) ==
  IF L.error # "" THEN L
  ELSE [L EXCEPT !.credentialsToUse = CredentialsToUse(args[c].roleArn)]

\* addSignatureTo === 'headers' ? signer.sign : signer.presign
SignerOperationDefaultSign(mode) == IF mode = "query" THEN "presign" ELSE "sign"

SignerOperation(mode) == IF mode = "headers" THEN "sign" ELSE "presign"

\* signer.sign(request) / signer.presign(request) is invoked
StmtSign(c, L) ==
  IF L.error # "" THEN L
  ELSE [L EXCEPT !.ops = Append(L.ops, SignerOperation(args[c].mode))]

\* The synchronous part of sign, in source order.
SyncPartCredentialsFirst(c) ==
  StmtSign(c, StmtBody(c, StmtQuery(c, StmtCredentials(c,
    StmtRequest(c, StmtUrl(c, Locals0))))))

SyncPart(c) ==
  StmtSign(c, StmtCredentials(c, StmtBody(c, StmtQuery(c,
    StmtRequest(c, StmtUrl(c, Locals0))))))

\* ------------------------------------------------------------ the signer
\* The signature is a function of the request, the credentials and the scope.
Signature(req, creds, service, region) ==
  <<"sig", req.method, service, region, creds.kind>> \o req.hostname \o req.path

\* What the signer returns for `req`, whose mappings hold `h` and `q`: a copy
\* with the signature in an `authorization` header (sign) or in an
\* `X-Amz-Signature` query parameter (presign).
SignerApply(op, req, h, q, creds, service, region) ==
  LET sig == Signature(req, creds, service, region)
  IN  IF op = "sign"
      THEN [headers |-> Spread(Spread(h, "x-amz-date", <<"now">>),
                               "authorization", sig),
            query |-> q]
      ELSE [headers |-> h,
            query |-> Spread(Spread(q, "X-Amz-Date", <<"now">>),
                             "X-Amz-Signature", sig)]

\* delete signedRequest.headers.host, in the 'headers' branch only
FinalHeadersKeepHost(mode, h) == h

FinalHeaders(mode, h) == IF mode = "headers" THEN Delete(h, "host") ELSE h

\* No try/catch surrounds the await: a rejection leaves sign unchanged.
PropagatedErrorWrapped(e) == "BadRequestException"

PropagatedError(e) == e

\* --------------------------------------------------------------- actions
\* sign() is called: everything up to the await runs in one step.  A throw
\* rejects the returned promise; otherwise the signer operation is pending.
Call(c) ==
  /\ pc[c] = "pending"
  /\ LET L == SyncPart(c)
     IN  /\ heap' = IF L.request.built
                    THEN [heap EXCEPT ![L.request.headers] = L.headersObj]
                    ELSE heap
         /\ request' = [request EXCEPT ![c] = L.request]
         /\ credentialsToUse' = [credentialsToUse EXCEPT ![c] = L.credentialsToUse]
         /\ signerOps' = [signerOps EXCEPT ![c] = L.ops]
         /\ thrown' = [thrown EXCEPT ![c] = L.error]
         /\ pc' = [pc EXCEPT ![c] = IF L.error = "" THEN "awaiting" ELSE "failed"]
  /\ UNCHANGED <<args, resolves, signedRequest>>

\* The credential provider resolves and the signer returns a signed copy of
\* the request it was given.
ResolveCredentials(c) ==
  /\ pc[c] = "awaiting"
  /\ LET r  == request[c]
         op == signerOps[c][Len(signerOps[c])]
         s  == SignerApply(op, r, heap[r.headers], heap[r.query],
                           credentialsToUse[c], args[c].service, args[c].region)
     IN  /\ heap' = [heap EXCEPT ![<<c, "signed.headers">>] = s.headers,
                                 ![<<c, "signed.query">>] = s.query]
         /\ signedRequest' =
              [signedRequest EXCEPT ![c] = [r EXCEPT !.headers = <<c, "signed.headers">>,
                                                     !.query = <<c, "signed.query">>]]
  /\ resolves' = [resolves EXCEPT ![c] = @ + 1]
  /\ pc' = [pc EXCEPT ![c] = "resolved"]
  /\ UNCHANGED <<args, request, credentialsToUse, signerOps, thrown>>

\* The credential provider rejects: the signer operation rejects, and so
\* does the await in sign.
CredentialsFail(c) ==
  /\ pc[c] = "awaiting"
  /\ resolves' = [resolves EXCEPT ![c] = @ + 1]
  /\ thrown' = [thrown EXCEPT ![c] = PropagatedError("CredentialsProviderError")]
  /\ pc' = [pc EXCEPT ![c] = "failed"]
  /\ UNCHANGED <<args, heap, request, credentialsToUse, signerOps, signedRequest>>

\* sign resumes after the await and returns signedRequest.
Return(c) ==
  /\ pc[c] = "resolved"
  /\ heap' = [heap EXCEPT ![signedRequest[c].headers] =
                             FinalHeaders(args[c].mode, @)]
  /\ pc' = [pc EXCEPT ![c] = "returned"]
  /\ UNCHANGED <<args, request, credentialsToUse, signerOps, resolves,
                 signedRequest, thrown>>

Next ==
  \E c \in Calls :
    \/ Call(c)
    \/ ResolveCredentials(c)
    \/ CredentialsFail(c)
    \/ Return(c)

\* ------------------------------------------------------- initial states
\* Header mappings a caller passes: any spelling of host, or another header.
HeaderMaps ==
  {[n \in D |-> <<"z">>] : D \in (SUBSET {"host", "Host"}) \cup {{"x-api-key"}}}

QueryMap == [n \in {"param1"} |-> <<"v">>]

ArgsRecords(hosts, paths, methods, bodies, arns, svcs, regs, hrefs, qrefs, modes) ==
  [service : svcs, region : regs, roleArn : arns,
   hostname : hosts, path : paths, method : methods, body : bodies,
   headers : hrefs, query : qrefs, mode : modes]

IdleArgs ==
  [service |-> "execute-api", region |-> "eu-west-1", roleArn |-> Undefined,
   hostname |-> <<"a">>, path |-> AbsentPath, method |-> "GET",
   body |-> Undefined, headers |-> Null, query |-> Null, mode |-> Undefined]

\* No invocation has run yet; objects not yet created hold nothing.
InitLocals ==
  /\ request = [c \in Calls |-> NoRequest]
  /\ credentialsToUse = [c \in Calls |-> NoCredentials]
  /\ signerOps = [c \in Calls |-> <<>>]
  /\ resolves = [c \in Calls |-> 0]
  /\ signedRequest = [c \in Calls |-> NoRequest]
  /\ thrown = [c \in Calls |-> ""]

\* One invocation, with its own input objects.
InitOne(inputs) ==
  /\ \E a \in inputs, h \in HeaderMaps :
       /\ args = [c \in Calls |-> IF c = 1 THEN a ELSE IdleArgs]
       /\ heap = [r \in Refs |->
                    IF r = <<1, "input.headers">> /\ a.headers # Null THEN h
                    ELSE IF r = <<1, "input.query">> /\ a.query # Null THEN QueryMap
                    ELSE EmptyMap]
  /\ pc = [c \in Calls |-> IF c = 1 THEN "pending" ELSE "unused"]
  /\ InitLocals

\* Every combination of the arguments that decide validation, credentials
\* and the signing mode, on a valid and on an invalid URL.
MainInputs ==
  ArgsRecords({<<"a">>}, {PathOf(<<"/", "a">>)}, Methods, BodyValues,
              RoleArnValues, Services, Regions,
              {Null, <<1, "input.headers">>}, {Null, <<1, "input.query">>}, Modes)
  \cup
  ArgsRecords({<<>>}, {AbsentPath}, Methods, BodyValues,
              {Undefined}, {"execute-api"}, {"eu-west-1"},
              {Null}, {Null}, Modes)

Init == InitOne(MainInputs)

Spec == Init /\ [][Next]_vars

\* Every hostname and path, on a GET request.
UrlInputs ==
  ArgsRecords(Hostnames, Paths, {"GET"}, {Undefined}, {Undefined},
              {"execute-api"}, {"eu-west-1"},
              {Null, <<1, "input.headers">>}, {Null}, {"headers", "query"})

InitUrl == InitOne(UrlInputs)

SpecUrl == InitUrl /\ [][Next]_vars

\* Concurrent invocations.  A later invocation is given its own input
\* objects or the ones the first invocation was given.
ConcInputs(c) ==
  ArgsRecords({<<"a">>}, {PathOf(<<"/", "a">>)}, {"GET", "POST"},
              {Undefined, "object"}, {Undefined}, {"execute-api"}, {"eu-west-1"},
              {<<k, "input.headers">> : k \in {1, c}},
              {<<k, "input.query">> : k \in {1, c}},
              {"headers", "query"})

InitConc ==
  /\ args \in [Calls -> UNION {ConcInputs(c) : c \in Calls}]
  /\ \A c \in Calls :
       /\ args[c] \in ConcInputs(c)
       /\ args[c].headers[1] = args[c].query[1]
       /\ args[c].method = "GET" => args[c].body = Undefined
  /\ heap = [r \in Refs |->
               IF r[2] = "input.headers" THEN [n \in {"Host"} |-> <<"z">>]
               ELSE IF r[2] = "input.query" THEN QueryMap
               ELSE EmptyMap]
  /\ pc = [c \in Calls |-> "pending"]
  /\ InitLocals

SpecConc == InitConc /\ [][Next]_vars

\* ---------------------------------------------------------------- claims
Started(c) == pc[c] \notin {"unused", "pending"}

\* The invocation got past validation: a signer operation was invoked.
Passed(c) ==
  \/ pc[c] \in {"awaiting", "resolved", "returned"}
  \/ pc[c] = "failed" /\ resolves[c] > 0

UrlValid(c) == UrlParse(UrlText(args[c].hostname, args[c].path)).valid

BodyRequired(c) == args[c].method \in {"POST", "PUT"}

\* C1: a POST or PUT call without a body fails with BadRequestException and
\* returns nothing; with any supplied body ('' , 0 and false included) it
\* does not fail with that error and proceeds to signing.  (Stated for
\* calls whose URL parses and whose service and region are not empty.)
C1_BodyRule ==
  \A c \in Calls :
    /\ Started(c) /\ UrlValid(c) /\ BodyRequired(c)
    /\ args[c].service # "" /\ args[c].region # ""
    =>
      IF args[c].body = Undefined
      THEN /\ pc[c] = "failed"
           /\ thrown[c] = "BadRequestException"
           /\ ~signedRequest[c].built
      ELSE /\ thrown[c] # "BadRequestException"
           /\ signerOps[c] # <<>>

\* C2: a call with an empty service or region signals a validation error
\* and performs no signer operation.
C2_EmptyScopeRejected ==
  \A c \in Calls :
    Started(c) /\ UrlValid(c) /\ (args[c].service = "" \/ args[c].region = "") =>
      /\ signerOps[c] = <<>>
      /\ thrown[c] = "BadRequestException"

\* C3: a call that passes validation invokes exactly one signer operation,
\* chosen by the mode alone: sign for 'headers' (signature in the
\* authorization header, none in the query), presign for 'query' and for an
\* omitted mode (signature in the query, no authorization header).
C3_OneOperationByMode ==
  \A c \in Calls :
    /\ Passed(c) =>
         /\ Len(signerOps[c]) = 1
         /\ signerOps[c][1] = (IF args[c].mode = "headers" THEN "sign" ELSE "presign")
    /\ pc[c] = "returned" =>
         LET h == heap[signedRequest[c].headers]
             q == heap[signedRequest[c].query]
         IN  IF args[c].mode = "headers"
             THEN "authorization" \in DOMAIN h /\ "X-Amz-Signature" \notin DOMAIN q
             ELSE "X-Amz-Signature" \in DOMAIN q /\ "authorization" \notin DOMAIN h

C3_Witness ==
  \E c \in Calls :
    pc[c] = "returned" /\ args[c].mode = Undefined /\ signerOps[c] = <<"presign">>

\* C4: a call returned in 'headers' mode has no `host` header although the
\* request given to the signer had one; in any other mode the `host` header
\* given to the signer is still in the returned request.
C4_HostRemovedInHeadersMode ==
  \A c \in Calls :
    pc[c] = "returned" =>
      LET given == heap[request[c].headers]
          out   == heap[signedRequest[c].headers]
      IN  /\ "host" \in DOMAIN given
          /\ args[c].mode = "headers" => "host" \notin DOMAIN out
          /\ args[c].mode # "headers" =>
               "host" \in DOMAIN out /\ out["host"] = given["host"]

C4_Witness ==
  \E c \in Calls :
    /\ pc[c] = "returned" /\ args[c].mode = "headers"
    /\ "host" \in DOMAIN heap[request[c].headers]
    /\ "authorization" \in DOMAIN heap[signedRequest[c].headers]

\* C5: a call that ends in the validation error has constructed no
\* credential source, resolved no credentials, invoked no signer operation
\* and produced no signed request.
C5_FailFast ==
  \A c \in Calls :
    thrown[c] = "BadRequestException" =>
      /\ credentialsToUse[c] = NoCredentials
      /\ resolves[c] = 0
      /\ signerOps[c] = <<>>
      /\ ~signedRequest[c].built
      /\ heap[<<c, "signed.headers">>] = EmptyMap
      /\ heap[<<c, "signed.query">>] = EmptyMap

C5_Witness ==
  \E c \in Calls :
    pc[c] = "failed" /\ thrown[c] = "BadRequestException" /\ request[c].built

\* C6: a call that passes validation uses exactly one credential source:
\* the temporary role-assumption source with the given ARN and a duration of
\* 3600 seconds when a role ARN is given, the default chain when roleArn is
\* absent.
C6_CredentialSourceByRoleArn ==
  \A c \in Calls :
    Passed(c) =>
      /\ credentialsToUse[c].kind \in {"temporary", "default"}
      /\ args[c].roleArn = ExampleRoleArn =>
           credentialsToUse[c] =
             [kind |-> "temporary", RoleArn |-> ExampleRoleArn, Duration |-> 3600]
      /\ args[c].roleArn = Undefined => credentialsToUse[c].kind = "default"

C6_Witness ==
  \E c \in Calls :
    /\ Passed(c) /\ args[c].roleArn = ExampleRoleArn
    /\ credentialsToUse[c].kind = "temporary"

\* C7: when credential resolution fails the call rejects with the
\* provider's error itself, after one signer operation and one resolution,
\* and no signed request exists.
C7_CredentialErrorPropagates ==
  \A c \in Calls :
    pc[c] = "failed" /\ resolves[c] > 0 =>
      /\ thrown[c] = "CredentialsProviderError"
      /\ Len(signerOps[c]) = 1
      /\ resolves[c] = 1
      /\ ~signedRequest[c].built

C7_Witness ==
  \E c \in Calls :
    pc[c] = "failed" /\ resolves[c] = 1 /\ args[c].method = "POST"

\* What invocation c returns or throws when it runs alone on its input.
InputQuery(c) == IF args[c].query = Null THEN EmptyMap ELSE heap[args[c].query]

AloneSigned(c) ==
  LET L == SyncPart(c)
  IN  SignerApply(L.ops[1], L.request, L.headersObj, InputQuery(c),
                  L.credentialsToUse, args[c].service, args[c].region)

OutcomesIndependent ==
  \A c \in Calls :
    LET L == SyncPart(c)
    IN  /\ L.error # "" /\ Started(c) => pc[c] = "failed" /\ thrown[c] = L.error
        /\ pc[c] = "failed" =>
             thrown[c] = (IF L.error # "" THEN L.error ELSE "CredentialsProviderError")
        /\ pc[c] = "returned" =>
             /\ L.error = ""
             /\ signedRequest[c].hostname = L.request.hostname
             /\ signedRequest[c].path = L.request.path
             /\ signedRequest[c].method = L.request.method
             /\ signedRequest[c].body = L.request.body
             /\ heap[signedRequest[c].headers] =
                  FinalHeaders(args[c].mode, AloneSigned(c).headers)
             /\ heap[signedRequest[c].query] = AloneSigned(c).query

InputsUnchanged == \A r \in InputRefs : heap'[r] = heap[r]

\* C8: under every interleaving of concurrent calls, each call's outcome is
\* the one it has alone, and no step changes an object a caller passed in
\* (headers, query), the deletion of `host` included.
C8_ConcurrentCallsIndependent ==
  []OutcomesIndependent /\ [][InputsUnchanged]_vars

C8_Witness ==
  \E c1, c2 \in Calls :
    /\ c1 # c2
    /\ pc[c1] = "resolved" /\ pc[c2] = "resolved"
    /\ args[c1].headers = args[c2].headers
    /\ args[c1].mode = "headers"

HeaderNameLower(n) == IF n \in {"host", "Host", "HOST"} THEN "host" ELSE n

\* C9: the request handed to the signer has a `host` header holding the
\* request's hostname, and exactly one header whose name is `host` ignoring
\* case.
C9_SingleHostHeader ==
  \A c \in Calls :
    Passed(c) =>
      LET h == heap[request[c].headers]
      IN  /\ "host" \in DOMAIN h
          /\ h["host"] = request[c].hostname
          /\ Cardinality({n \in DOMAIN h : HeaderNameLower(n) = "host"}) = 1

LowerString(s) == [i \in 1..Len(s) |-> Lower(s[i])]

\* C10: the hostname and `host` header of the request handed to the signer
\* are the input hostname, and its path is the input path, `/` when the
\* path is absent or empty.  (Stated for a non-empty hostname, and with
\* host names compared ignoring case.)
C10_HostAndPathPreserved ==
  \A c \in Calls :
    Passed(c) /\ args[c].hostname # <<>> =>
      /\ request[c].hostname = LowerString(args[c].hostname)
      /\ heap[request[c].headers]["host"] = LowerString(args[c].hostname)
      /\ request[c].path =
           (IF PathOrEmpty(args[c].path) = <<>> THEN <<"/">> ELSE args[c].path.value)

====
